---- MODULE Spec2Model ----
(***************************************************************************)
(* The two ordered indexes of hey-kong/stashlist: the baseline SkipList    *)
(* and the adaptive StashList (skiplist.go).  The heap of elements is      *)
(* modelled explicitly: every element is an object with its own forward    *)
(* links, so an element unlinked from the head can still be pointed to by  *)
(* a stale link, as in the garbage-collected program.  Each operation is a *)
(* function from the heap before the call to the heap after it and the     *)
(* value returned; one action per operation applies it.  The goroutines of *)
(* TestConcurrency run SkipList.Add and SkipList.Get one shared read or    *)
(* write at a time (ConcSpec).                                             *)
(***************************************************************************)
EXTENDS Integers, FiniteSets, Sequences, TLC

\* ---------------------------------------------------------------- bounds
MaxKey == 3            \* keys are 1..MaxKey (ordered as the Go strings are)
MaxElems == 3          \* elements one index ever allocates
maxLevel == 3          \* the argument of NewWithMaxLevel
\* The deep workloads (DeepSpec, TallSpec): more keys and elements, fewer
\* choices.
DeepKey == 4           \* their keys are 1..DeepKey
DeepElems == 5         \* elements DeepSpec ever allocates; the size of the heap
DeepLevel == 2         \* the randLevel draws of DeepSpec are 1..DeepLevel

Keys == 1..MaxKey
Values == {"a", "b"}
NoVal == "nil"         \* the nil []byte
Levels == 0..(maxLevel - 1)
ListHead == 0          \* &list.elementNode, the sentinel
NIL == -1              \* the nil *Element
Elems == 1..DeepElems  \* the identities an element can have
Nodes == {ListHead} \cup Elems
Fuel == DeepElems + 1  \* a walk longer than this has entered a cycle

VARIABLES
    variant,         \* "StashList" or "SkipList": which index was constructed
    next,            \* next[n][i]: forward link of node n at level i
    slots,           \* slots[n] = len(n.next), the size of the link array
    level,           \* StashList: elementNode.level
    visited,         \* StashList: elementNode.visited
    key,             \* Element.key (0 for an id that holds no element)
    value,           \* Element.value
    Length,          \* list.Length
    prevNodesCache,  \* list.prevNodesCache
    nalloc,          \* elements allocated so far (ids 1..nalloc are in use)
    fault,           \* "ok", "hang" (a call that never returns) or "panic"
    ref,             \* reference map: key -> value of its last Add, NoVal once removed
    op,              \* the last call and what it returned
    thr,             \* goroutines: thr[t] is the position and the locals of t
    view             \* what an unsynchronised reader may still see of older writes

vars == <<variant, next, slots, level, visited, key, value, Length, prevNodesCache,
          nalloc, fault, ref, op, thr, view>>

\* ------------------------------------------------------------------ heap
\* The index as one record, so that an operation is a function of it.
NilLinks == [i \in Levels |-> NIL]

EmptyHeap(headLevel) ==
    [next    |-> [n \in Nodes |-> NilLinks],
     slots   |-> [n \in Nodes |-> IF n = ListHead THEN maxLevel ELSE 0],
     level   |-> [n \in Nodes |-> IF n = ListHead THEN headLevel ELSE 0],
     visited |-> [n \in Nodes |-> FALSE],
     key     |-> [n \in Elems |-> 0],
     value   |-> [n \in Elems |-> NoVal],
     Length  |-> 0,
     prevs   |-> NilLinks,
     nalloc  |-> 0]

Cur ==
    [next |-> next, slots |-> slots, level |-> level, visited |-> visited, key |-> key,
     value |-> value, Length |-> Length, prevs |-> prevNodesCache,
     nalloc |-> nalloc]

\* The nodes the list still points to: from the head and the predecessor
\* cache, along every forward link.
RECURSIVE Reach(_, _)
Reach(h, S) ==
    IF \A m \in S, i \in Levels : h.next[m][i] = NIL \/ h.next[m][i] \in S
    THEN S
    ELSE Reach(h, S \cup (UNION {{h.next[m][i] : i \in Levels} : m \in S} \ {NIL}))

Live(h) == Reach(h, {ListHead} \cup ({h.prevs[i] : i \in Levels} \ {NIL}))

\* Go's collector: an element nothing points to is gone.
Sweep(h, L) ==
    IF \A e \in 1..h.nalloc : e \in L THEN h
    ELSE
    [h EXCEPT !.next    = [n \in Nodes |-> IF n \in L THEN h.next[n] ELSE NilLinks],
              !.slots   = [n \in Nodes |-> IF n \in L THEN h.slots[n] ELSE 0],
              !.level   = [n \in Nodes |-> IF n \in L THEN h.level[n] ELSE 0],
              !.visited = [n \in Nodes |-> IF n \in L THEN h.visited[n] ELSE FALSE],
              !.key     = [n \in Elems |-> IF n \in L THEN h.key[n] ELSE 0],
              !.value   = [n \in Elems |-> IF n \in L THEN h.value[n] ELSE NoVal]]

Collect(h) == Sweep(h, Live(h))

\* &Element{...}: a new object, distinct from every one allocated before.
NewElem(h) == h.nalloc + 1

\* The match test after a descent: element != nil && element.key <= key.
Matches(h, e, k) == e # NIL /\ h.key[e] <= k

\* The outcome of randLevel: some level in 1..maxLevel.
randLevel == 1..maxLevel

\* What a call returns, with the heap it leaves.
Outcome(h, status, elem, found, val, lvl, promoted) ==
    [h |-> h, status |-> status, elem |-> elem, found |-> found, val |-> val,
     lvl |-> lvl, promoted |-> promoted]

Stuck(h, status) == Outcome(h, status, NIL, FALSE, NoVal, 0, FALSE)

\* The splice loop of Add: links element e into levels 0..L-1 after prevs.
Splice(nx, prevs, e, L) ==
    [n \in Nodes |-> [i \in Levels |->
        IF i < L /\ n = prevs[i] THEN e
        ELSE IF i < L /\ n = e THEN nx[prevs[i]][i]
        ELSE nx[n][i]]]

\* The unlink loop of Remove: prevs[k].next[k] = element.next[k] for every
\* slot k of the element's link array, which has n slots (range element.next).
Unlink(nx, prevs, e, n) ==
    [m \in Nodes |-> [i \in Levels |->
        IF i < n /\ m = prevs[i] THEN nx[e][i] ELSE nx[m][i]]]

\* ------------------------------------------------------------ StashList
\* Mutant: a demotion that leaves the level counter as it was.
Demote_KeepLevel(h, i, before, prev, nxt) ==
    [h EXCEPT !.next = [@ EXCEPT ![before][i] = nxt, ![prev][i] = NIL]]

\* One demotion inside StashList.getPrevElementNodes: prev is unlinked from
\* level i between before and nxt, and its level counter drops by one.
Demote(h, i, before, prev, nxt) ==
    [h EXCEPT !.next = [@ EXCEPT ![before][i] = nxt, ![prev][i] = NIL],
              !.level[prev] = @ - 1]

DemoteTest(h, k, i, prev, nxt) ==
    i > 0 /\ nxt # NIL /\ k = h.key[nxt] /\ h.visited[prev] = FALSE

\* The inner loop of StashList.getPrevElementNodes at level i, from prev.
RECURSIVE StashWalk(_, _, _, _, _)
StashWalk(h, k, i, prev, fuel) ==
    IF h.next[prev][i] = NIL \/ ~(k > h.key[h.next[prev][i]])
    THEN [h |-> h, prev |-> prev, status |-> "ok"]
    ELSE IF fuel = 0
    THEN [h |-> h, prev |-> prev, status |-> "hang"]
    ELSE IF DemoteTest(h, k, i, h.next[prev][i], h.next[h.next[prev][i]][i])
    THEN [h |-> Demote(h, i, prev, h.next[prev][i], h.next[h.next[prev][i]][i]),
          prev |-> h.next[prev][i], status |-> "ok"]
    ELSE StashWalk(h, k, i, h.next[prev][i], fuel - 1)

\* The outer loop of StashList.getPrevElementNodes, levels i down to 0;
\* w is what the inner loop leaves at level i.
RECURSIVE StashDescend(_, _, _)
StashDescend(w, k, i) ==
    IF w.status # "ok" THEN [h |-> w.h, status |-> w.status]
    ELSE IF i = 0 THEN [h |-> [w.h EXCEPT !.prevs[i] = w.prev], status |-> "ok"]
    ELSE StashDescend(StashWalk([w.h EXCEPT !.prevs[i] = w.prev], k, i - 1, w.prev, Fuel),
                      k, i - 1)

StashGetPrevElementNodes(h, k) ==
    StashDescend(StashWalk(h, k, maxLevel - 1, ListHead, Fuel), k, maxLevel - 1)

\* The candidate after a descent r: prevs[0].next[0].
Candidate(r) ==
    [h |-> r.h, status |-> r.status,
     element |-> IF r.status = "ok" THEN r.h.next[r.h.prevs[0]][0] ELSE NIL]

\* The promotion of a re-hit element in StashList.Add.
CanPromote(h, element) ==
    h.level[element] < maxLevel /\ h.prevs[h.level[element]] # ListHead

\* Mutant: the promotion splices after the head, not after prevs[level].
Promote_AtHead(h, element, lvl) ==
    [h EXCEPT !.next = [@ EXCEPT ![element][lvl] = h.next[ListHead][lvl],
                                 ![ListHead][lvl] = element],
              !.visited[h.prevs[lvl]] = FALSE,
              !.level[element] = lvl + 1]

Promote(h, element, lvl) ==
    [h EXCEPT !.next = [@ EXCEPT ![element][lvl] = h.next[h.prevs[lvl]][lvl],
                                 ![h.prevs[lvl]][lvl] = element],
              !.visited[h.prevs[lvl]] = FALSE,
              !.level[element] = lvl + 1]

\* Mutant: a hit promotes at once, whatever the visited flag says.
StashTouch_Eager(h, element) ==
    IF CanPromote(h, element)
    THEN [Promote(h, element, h.level[element]) EXCEPT !.visited[element] = TRUE]
    ELSE [h EXCEPT !.visited[element] = TRUE]

\* The branch of StashList.Add that finds the key.
StashTouch(h, element) ==
    IF h.visited[element] = FALSE
    THEN [h EXCEPT !.visited[element] = TRUE]
    ELSE IF CanPromote(h, element) THEN Promote(h, element, h.level[element])
    ELSE h

StashHit(h, element, v) ==
    Outcome([StashTouch(h, element) EXCEPT !.value[element] = v], "ok", element,
            TRUE, v, 0, h.visited[element] /\ CanPromote(h, element))

\* Mutant: the new element is left unvisited whatever its level.
StashInsert_NeverVisited(h, k, v, L) ==
    Outcome([h EXCEPT !.next = Splice([@ EXCEPT ![NewElem(h)] = NilLinks],
                                      h.prevs, NewElem(h), L),
                      !.slots[NewElem(h)] = maxLevel,
                      !.level[NewElem(h)] = L,
                      !.visited[NewElem(h)] = FALSE,
                      !.key[NewElem(h)] = k,
                      !.value[NewElem(h)] = v,
                      !.Length = @ + 1,
                      !.nalloc = NewElem(h)],
            "ok", NewElem(h), FALSE, v, L, FALSE)

\* The branch of StashList.Add that creates an element of level L.
StashInsert(h, k, v, L) ==
    Outcome([h EXCEPT !.next = Splice([@ EXCEPT ![NewElem(h)] = NilLinks],
                                      h.prevs, NewElem(h), L),
                      !.slots[NewElem(h)] = maxLevel,
                      !.level[NewElem(h)] = L,
                      !.visited[NewElem(h)] = (L = 1),
                      !.key[NewElem(h)] = k,
                      !.value[NewElem(h)] = v,
                      !.Length = @ + 1,
                      !.nalloc = NewElem(h)],
            "ok", NewElem(h), FALSE, v, L, FALSE)

\* StashList.Add after its descent s, from the heap h0 of the call.
StashAddFrom(h0, s, k, v, L) ==
    IF s.status # "ok" THEN Stuck(h0, s.status)
    ELSE IF Matches(s.h, s.element, k)
    THEN IF s.h.visited[s.element] /\ s.h.level[s.element] < 0
         THEN Stuck(h0, "panic")
         ELSE StashHit(s.h, s.element, v)
    ELSE IF s.h.nalloc >= DeepElems THEN Stuck(h0, "full")
    ELSE StashInsert(s.h, k, v, L)

\* The inner loop of Get (both indexes) and of SkipList.getPrevElementNodes:
\* no demotion.  Reading next.next[i] of an element with no more than i link
\* slots panics.
RECURSIVE GetWalk(_, _, _, _, _)
GetWalk(h, k, i, prev, fuel) ==
    IF h.next[prev][i] = NIL \/ ~(k > h.key[h.next[prev][i]])
    THEN [h |-> h, prev |-> prev, nxt |-> h.next[prev][i], status |-> "ok"]
    ELSE IF fuel = 0
    THEN [h |-> h, prev |-> prev, nxt |-> h.next[prev][i], status |-> "hang"]
    ELSE IF i >= h.slots[h.next[prev][i]]
    THEN [h |-> h, prev |-> prev, nxt |-> h.next[prev][i], status |-> "panic"]
    ELSE GetWalk(h, k, i, h.next[prev][i], fuel - 1)

RECURSIVE GetDescend(_, _, _)
GetDescend(w, k, i) ==
    IF w.status # "ok" \/ i = 0 THEN w
    ELSE GetDescend(GetWalk(w.h, k, i - 1, w.prev, Fuel), k, i - 1)

GetSearch(h, k) ==
    GetDescend(GetWalk(h, k, maxLevel - 1, ListHead, Fuel), k, maxLevel - 1)

StashGetFrom(h, g, k) ==
    IF g.status # "ok" THEN Stuck(h, g.status)
    ELSE IF Matches(h, g.nxt, k)
    THEN Outcome([h EXCEPT !.visited[g.nxt] = TRUE], "ok", g.nxt, TRUE,
                 h.value[g.nxt], 0, FALSE)
    ELSE Outcome(h, "ok", NIL, FALSE, NoVal, 0, FALSE)

StashGetFn(h, k) == StashGetFrom(h, GetSearch(h, k), k)

\* Remove after its descent s (both indexes).
RemoveFrom(h0, s, k) ==
    IF s.status # "ok" THEN Stuck(h0, s.status)
    ELSE IF Matches(s.h, s.element, k)
    THEN Outcome([s.h EXCEPT !.next = Unlink(@, s.h.prevs, s.element, s.h.slots[s.element]),
                             !.Length = @ - 1],
                 "ok", s.element, TRUE, NoVal, 0, FALSE)
    ELSE Outcome(s.h, "ok", NIL, FALSE, NoVal, 0, FALSE)

StashRemoveFn(h, k) ==
    RemoveFrom(h, Candidate(StashGetPrevElementNodes(h, k)), k)

\* ------------------------------------------------------------- SkipList
\* The outer loop of SkipList.getPrevElementNodes, recording prevs[i].
RECURSIVE SkipDescend(_, _, _)
SkipDescend(w, k, i) ==
    IF w.status # "ok" THEN [h |-> w.h, status |-> w.status]
    ELSE IF i = 0 THEN [h |-> [w.h EXCEPT !.prevs[i] = w.prev], status |-> "ok"]
    ELSE SkipDescend(GetWalk([w.h EXCEPT !.prevs[i] = w.prev], k, i - 1, w.prev, Fuel),
                     k, i - 1)

SkipGetPrevElementNodes(h, k) ==
    SkipDescend(GetWalk(h, k, maxLevel - 1, ListHead, Fuel), k, maxLevel - 1)

\* Mutant: the new element is spliced after the head at every level.
SkipInsert_AtHead(h, k, v, L) ==
    Outcome([h EXCEPT !.next = Splice([@ EXCEPT ![NewElem(h)] = NilLinks],
                                      [i \in Levels |-> ListHead], NewElem(h), L),
                      !.slots[NewElem(h)] = L,
                      !.key[NewElem(h)] = k,
                      !.value[NewElem(h)] = v,
                      !.Length = @ + 1,
                      !.nalloc = NewElem(h)],
            "ok", NewElem(h), FALSE, v, L, FALSE)

\* The branch of SkipList.Add that creates an element with L link slots.
SkipInsert(h, k, v, L) ==
    Outcome([h EXCEPT !.next = Splice([@ EXCEPT ![NewElem(h)] = NilLinks],
                                      h.prevs, NewElem(h), L),
                      !.slots[NewElem(h)] = L,
                      !.key[NewElem(h)] = k,
                      !.value[NewElem(h)] = v,
                      !.Length = @ + 1,
                      !.nalloc = NewElem(h)],
            "ok", NewElem(h), FALSE, v, L, FALSE)

\* Mutant: an Add that finds its key counts it as a new element.
SkipAddFrom_CountHit(h0, s, k, v, L) ==
    IF s.status # "ok" THEN Stuck(h0, s.status)
    ELSE IF Matches(s.h, s.element, k)
    THEN Outcome([s.h EXCEPT !.value[s.element] = v, !.Length = @ + 1], "ok",
                 s.element, TRUE, v, 0, FALSE)
    ELSE IF s.h.nalloc >= DeepElems THEN Stuck(h0, "full")
    ELSE SkipInsert(s.h, k, v, L)

\* SkipList.Add after its descent s, from the heap h0 of the call.
SkipAddFrom(h0, s, k, v, L) ==
    IF s.status # "ok" THEN Stuck(h0, s.status)
    ELSE IF Matches(s.h, s.element, k)
    THEN Outcome([s.h EXCEPT !.value[s.element] = v], "ok", s.element, TRUE, v,
                 0, FALSE)
    ELSE IF s.h.nalloc >= DeepElems THEN Stuck(h0, "full")
    ELSE SkipInsert(s.h, k, v, L)

\* Mutant: the match test of Get without its key comparison.
SkipGetFrom_AnyNext(h, g, k) ==
    IF g.status # "ok" THEN Stuck(h, g.status)
    ELSE IF g.nxt # NIL
    THEN Outcome(h, "ok", g.nxt, TRUE, h.value[g.nxt], 0, FALSE)
    ELSE Outcome(h, "ok", NIL, FALSE, NoVal, 0, FALSE)

\* SkipList.Get after its descent g.
SkipGetFrom(h, g, k) ==
    IF g.status # "ok" THEN Stuck(h, g.status)
    ELSE IF Matches(h, g.nxt, k)
    THEN Outcome(h, "ok", g.nxt, TRUE, h.value[g.nxt], 0, FALSE)
    ELSE Outcome(h, "ok", NIL, FALSE, NoVal, 0, FALSE)

SkipGetFn(h, k) == SkipGetFrom(h, GetSearch(h, k), k)

SkipRemoveFn(h, k) ==
    RemoveFrom(h, Candidate(SkipGetPrevElementNodes(h, k)), k)

\* ---------------------------------------------------------------- state
\* NewWithMaxLevel: an empty head with maxLevel nil links, Length 0.  The
\* StashList's head carries level maxLevel; the SkipList's nodes carry none.
NewIndex(which, h) ==
    /\ variant = which
    /\ next = h.next
    /\ slots = h.slots
    /\ level = h.level
    /\ visited = h.visited
    /\ key = h.key
    /\ value = h.value
    /\ Length = h.Length
    /\ prevNodesCache = h.prevs
    /\ nalloc = h.nalloc
    /\ fault = "ok"
    /\ ref = [k \in Keys |-> NoVal]
    /\ op = [name |-> "New", key |-> 0, elem |-> NIL, found |-> FALSE,
             val |-> NoVal, lvl |-> 0, promoted |-> FALSE]

NewWithMaxLevel(which) ==
    /\ NewIndex(which, EmptyHeap(IF which = "StashList" THEN maxLevel ELSE 0))
    /\ thr = <<>>
    /\ view = <<>>

Init == \E which \in {"StashList", "SkipList"} : NewWithMaxLevel(which)

\* A call returns: the heap it leaves becomes the state.
Install(h, status, newRef, newOp) ==
    /\ next' = h.next
    /\ slots' = h.slots
    /\ level' = h.level
    /\ visited' = h.visited
    /\ key' = h.key
    /\ value' = h.value
    /\ Length' = h.Length
    /\ prevNodesCache' = h.prevs
    /\ nalloc' = h.nalloc
    /\ fault' = status
    /\ ref' = newRef
    /\ op' = newOp
    /\ UNCHANGED <<variant, thr, view>>

Return(name, k, o, newRef) ==
    /\ o.status # "full"
    /\ Install(IF o.status = "ok" THEN Collect(o.h) ELSE Cur, o.status,
               IF o.status = "ok" THEN newRef ELSE ref,
               [name |-> name, key |-> k, elem |-> o.elem, found |-> o.found,
                val |-> o.val, lvl |-> o.lvl, promoted |-> o.promoted])

\* randLevel is called only when the descent found no match; a workload
\* that has allocated cap elements inserts no more.
Draws(s, k, cap, levels) ==
    IF s.status = "ok" /\ ~Matches(s.h, s.element, k)
    THEN IF s.h.nalloc >= cap THEN {} ELSE levels
    ELSE {0}

StashAddStep(s, k, v) ==
    \E L \in Draws(s, k, MaxElems, randLevel) :
        Return("Add", k, StashAddFrom(Cur, s, k, v, L), [ref EXCEPT ![k] = v])

StashAdd(k, v) ==
    /\ variant = "StashList" /\ fault = "ok"
    /\ StashAddStep(Candidate(StashGetPrevElementNodes(Cur, k)), k, v)

StashGet(k) ==
    /\ variant = "StashList" /\ fault = "ok"
    /\ Return("Get", k, StashGetFn(Cur, k), ref)

StashRemove(k) ==
    /\ variant = "StashList" /\ fault = "ok"
    /\ Return("Remove", k, StashRemoveFn(Cur, k), [ref EXCEPT ![k] = NoVal])

SkipAddStep(s, k, v) ==
    \E L \in Draws(s, k, MaxElems, randLevel) :
        Return("Add", k, SkipAddFrom(Cur, s, k, v, L), [ref EXCEPT ![k] = v])

SkipAdd(k, v) ==
    /\ variant = "SkipList" /\ fault = "ok"
    /\ SkipAddStep(Candidate(SkipGetPrevElementNodes(Cur, k)), k, v)

SkipGet(k) ==
    /\ variant = "SkipList" /\ fault = "ok"
    /\ Return("Get", k, SkipGetFn(Cur, k), ref)

SkipRemove(k) ==
    /\ variant = "SkipList" /\ fault = "ok"
    /\ Return("Remove", k, SkipRemoveFn(Cur, k), [ref EXCEPT ![k] = NoVal])

Next ==
    \/ \E k \in Keys, v \in Values : StashAdd(k, v)
    \/ \E k \in Keys : StashGet(k)
    \/ \E k \in Keys : StashRemove(k)
    \/ \E k \in Keys, v \in Values : SkipAdd(k, v)
    \/ \E k \in Keys : SkipGet(k)
    \/ \E k \in Keys : SkipRemove(k)

Spec == Init /\ [][Next]_vars

\* --------------------------------------------------------- deep workloads
\* A StashList under the workload of the tests, with more keys and elements
\* than Spec: the keys 1..DeepKey are added in ascending order, then any
\* call is made, with one value.  Every behaviour of a deep workload is a
\* behaviour of the program.  The history (ref, op) is not recorded, and no
\* call is made once Length or a level counter has left its range (they can
\* then fall without bound).
DeepKeys == 1..DeepKey
DeepValue == "a"
DeepLoaded == nalloc >= DeepKey
DeepSane == Length >= 0 /\ \A e \in Elems : key[e] # 0 => level[e] >= 1

DeepReturn(o) ==
    /\ o.status # "full"
    /\ Install(IF o.status = "ok" THEN Collect(o.h) ELSE Cur, o.status, ref, op)

DeepAddStep(s, k, cap, levels) ==
    \E L \in Draws(s, k, cap, levels) :
        DeepReturn(StashAddFrom(Cur, s, k, DeepValue, L))

DeepAdd(k, cap, levels) ==
    /\ fault = "ok" /\ DeepSane
    /\ DeepLoaded \/ k = nalloc + 1
    /\ DeepAddStep(Candidate(StashGetPrevElementNodes(Cur, k)), k, cap, levels)

DeepGet(k) ==
    /\ fault = "ok" /\ DeepSane /\ DeepLoaded
    /\ DeepReturn(StashGetFn(Cur, k))

DeepRemove(k) ==
    /\ fault = "ok" /\ DeepSane /\ DeepLoaded
    /\ DeepReturn(StashRemoveFn(Cur, k))

DeepInit == NewWithMaxLevel("StashList")

\* DeepSpec: up to DeepElems elements, levels drawn from 1..DeepLevel.
DeepNext ==
    \/ \E k \in DeepKeys : DeepAdd(k, DeepElems, 1..DeepLevel)
    \/ \E k \in DeepKeys : DeepGet(k)
    \/ \E k \in DeepKeys : DeepRemove(k)

DeepSpec == DeepInit /\ [][DeepNext]_vars

\* TallSpec: every level drawn, no insertion after the DeepKey keys are
\* loaded.
TallNext ==
    \/ \E k \in DeepKeys : DeepAdd(k, DeepKey, randLevel)
    \/ \E k \in DeepKeys : DeepGet(k)
    \/ \E k \in DeepKeys : DeepRemove(k)

TallSpec == DeepInit /\ [][TallNext]_vars

\* ------------------------------------------------------------ goroutines
\* TestConcurrency: two goroutines call one SkipList with no synchronisation.
\* Goroutine 1 makes Add calls; goroutine 2 makes Get calls, or one Add.
\* Every action is one read or one write of the shared index by one
\* goroutine (with the reads of one element's own fields taken together), so
\* a behaviour is an interleaving of the individual reads and writes.
\* A writer reads and writes the memory itself.  The reader has no
\* happens-before edge to the writer's stores, so each of its reads may
\* return the latest value written or an older one that it has not yet seen
\* overwritten; view keeps those older values.
ConcCalls == 2         \* calls one goroutine makes, at most
Threads == {1, 2}
Other(t) == 3 - t

\* The value stored with key k (IntToBytes(i) in the test).
ConcValue(k) == ToString(k)

Fields == {"key", "slots", "value"}

\* A goroutine that is to make the calls of its role for the keys calls, on
\* an index that holds the keys had: its locals between two calls.  found
\* and val are what its last call returned; n, had, stale (a read of the last
\* call returned an older value), met (the last Get walked over an element
\* made after the goroutines started) and overlap (a call ran while a call
\* of the other goroutine did) are history.
Idle(role, calls, had) ==
    [role |-> role, calls |-> calls, pc |-> "idle", k |-> 0, i |-> 0,
     prev |-> NIL, nxt |-> NIL, e |-> NIL, L |-> 0, r |-> 0,
     found |-> FALSE, val |-> NoVal, n |-> Len(calls), had |-> had,
     stale |-> FALSE, met |-> FALSE, overlap |-> FALSE]

Finished(t) == thr[t].pc = "idle" /\ thr[t].calls = <<>>
Running(t) == thr[t].pc # "idle"

\* The reader still has reads to make: the writes are remembered for it.
Watching == thr[2].role = "Get" /\ ~Finished(2)

NoView == [links |-> [n \in Nodes |-> [i \in Levels |-> <<>>]],
           init  |-> [e \in Elems |-> {}]]

\* What a step leaves alone.
Index == <<next, slots, key, value, Length, prevNodesCache, nalloc>>
Frame == <<variant, level, visited, ref, op>>

\* A goroutine dies of a nil dereference or an index out of range, and the
\* process with it.
Panic ==
    /\ fault' = "panic"
    /\ UNCHANGED <<Index, Frame, thr, view>>

\* Goroutine t moves to the locals r; nothing shared is written.
Local(t, r) ==
    /\ thr' = [thr EXCEPT ![t] = r]
    /\ UNCHANGED <<Index, Frame, fault, view>>

\* The call of t returns.
Returned(r) == [r EXCEPT !.pc = "idle", !.i = 0, !.prev = NIL, !.nxt = NIL,
                         !.e = NIL, !.L = 0, !.r = 0]

\* Node n has a link slot at level i: n.next[i] is in range.
HasSlot(n, i) == n # NIL /\ i < slots[n]

\* The next call of t begins: prev = &list.elementNode, i = maxLevel - 1.
Begin(t) ==
    /\ fault = "ok" /\ thr[t].pc = "idle" /\ thr[t].calls # <<>>
    /\ thr' = [thr EXCEPT
                 ![t] = [@ EXCEPT !.pc = "load", !.k = Head(thr[t].calls),
                                  !.calls = Tail(@), !.i = maxLevel - 1,
                                  !.prev = ListHead, !.found = FALSE,
                                  !.val = NoVal, !.stale = FALSE,
                                  !.met = FALSE,
                                  !.overlap = @ \/ Running(Other(t))],
                 ![Other(t)] = [@ EXCEPT !.overlap = @ \/ Running(Other(t))]]
    /\ UNCHANGED <<Index, Frame, fault, view>>

\* -- SkipList.Add, one shared access at a time
\* next = prev.next[i]
AddLoad(t) ==
    /\ fault = "ok" /\ thr[t].role = "Add" /\ thr[t].pc = "load"
    /\ IF HasSlot(thr[t].prev, thr[t].i)
       THEN Local(t, [thr[t] EXCEPT !.nxt = next[thr[t].prev][thr[t].i],
                                    !.pc = "test"])
       ELSE Panic

\* The loop body: prev = &next.elementNode; next = next.next[i]
AddAdvance(t) ==
    /\ fault = "ok" /\ thr[t].role = "Add" /\ thr[t].pc = "test"
    /\ thr[t].nxt # NIL /\ thr[t].k > key[thr[t].nxt]
    /\ IF HasSlot(thr[t].nxt, thr[t].i)
       THEN Local(t, [thr[t] EXCEPT !.prev = thr[t].nxt,
                                    !.nxt = next[thr[t].nxt][thr[t].i]])
       ELSE Panic

\* Mutant: the head is recorded as the predecessor at every level.
AddStore_Head(t) ==
    /\ fault = "ok" /\ thr[t].role = "Add" /\ thr[t].pc = "test"
    /\ ~(thr[t].nxt # NIL /\ thr[t].k > key[thr[t].nxt])
    /\ prevNodesCache' = [prevNodesCache EXCEPT ![thr[t].i] = ListHead]
    /\ thr' = [thr EXCEPT ![t] =
                 IF thr[t].i = 0 THEN [@ EXCEPT !.pc = "cand"]
                 ELSE [@ EXCEPT !.i = @ - 1, !.pc = "load"]]
    /\ UNCHANGED <<next, slots, key, value, Length, nalloc, Frame, fault, view>>

\* prevs[i] = prev, a write to the shared list.prevNodesCache
AddStore(t) ==
    /\ fault = "ok" /\ thr[t].role = "Add" /\ thr[t].pc = "test"
    /\ ~(thr[t].nxt # NIL /\ thr[t].k > key[thr[t].nxt])
    /\ prevNodesCache' = [prevNodesCache EXCEPT ![thr[t].i] = thr[t].prev]
    /\ thr' = [thr EXCEPT ![t] =
                 IF thr[t].i = 0 THEN [@ EXCEPT !.pc = "cand"]
                 ELSE [@ EXCEPT !.i = @ - 1, !.pc = "load"]]
    /\ UNCHANGED <<next, slots, key, value, Length, nalloc, Frame, fault, view>>

\* prevs[0], read back from the shared cache
AddCand(t) ==
    /\ fault = "ok" /\ thr[t].role = "Add" /\ thr[t].pc = "cand"
    /\ Local(t, [thr[t] EXCEPT !.prev = prevNodesCache[0], !.pc = "cand2"])

\* element = prevs[0].next[0]; element != nil && element.key <= key
AddCand2(t) ==
    /\ fault = "ok" /\ thr[t].role = "Add" /\ thr[t].pc = "cand2"
    /\ IF HasSlot(thr[t].prev, 0)
       THEN Local(t, [thr[t] EXCEPT
                        !.nxt = next[thr[t].prev][0],
                        !.pc = IF Matches(Cur, next[thr[t].prev][0], thr[t].k)
                               THEN "setval" ELSE "alloc"])
       ELSE Panic

\* element.value = value; return
AddSetValue(t) ==
    /\ fault = "ok" /\ thr[t].role = "Add" /\ thr[t].pc = "setval"
    /\ value' = [value EXCEPT ![thr[t].nxt] = ConcValue(thr[t].k)]
    /\ thr' = [thr EXCEPT ![t] = Returned([@ EXCEPT !.found = TRUE])]
    /\ UNCHANGED <<next, slots, key, Length, prevNodesCache, nalloc, Frame, fault,
                   view>>

\* element = &Element{next: make([]*Element, list.randLevel()), key, value}
AddAlloc(t) ==
    /\ fault = "ok" /\ thr[t].role = "Add" /\ thr[t].pc = "alloc"
    /\ nalloc < DeepElems
    /\ \E L \in randLevel :
          /\ slots' = [slots EXCEPT ![nalloc + 1] = L]
          /\ thr' = [thr EXCEPT ![t] = [@ EXCEPT !.e = nalloc + 1, !.L = L,
                                                 !.i = 0, !.pc = "sp1"]]
    /\ key' = [key EXCEPT ![nalloc + 1] = thr[t].k]
    /\ value' = [value EXCEPT ![nalloc + 1] = ConcValue(thr[t].k)]
    /\ nalloc' = nalloc + 1
    /\ view' = IF Watching THEN [view EXCEPT !.init[nalloc + 1] = Fields] ELSE view
    /\ UNCHANGED <<next, Length, prevNodesCache, Frame, fault>>

\* prevs[i], of element.next[i] = prevs[i].next[i]
AddSplice1(t) ==
    /\ fault = "ok" /\ thr[t].role = "Add" /\ thr[t].pc = "sp1"
    /\ Local(t, [thr[t] EXCEPT !.prev = prevNodesCache[thr[t].i], !.pc = "sp2"])

\* prevs[i].next[i], of element.next[i] = prevs[i].next[i]
AddSplice2(t) ==
    /\ fault = "ok" /\ thr[t].role = "Add" /\ thr[t].pc = "sp2"
    /\ IF HasSlot(thr[t].prev, thr[t].i)
       THEN Local(t, [thr[t] EXCEPT !.nxt = next[thr[t].prev][thr[t].i],
                                    !.pc = "sp3"])
       ELSE Panic

\* A write of v to the link n.next[i]; the reader may still see the old one.
WriteLink(n, i, v) ==
    /\ next' = [next EXCEPT ![n][i] = v]
    /\ view' = IF Watching /\ next[n][i] # v
               THEN [view EXCEPT !.links[n][i] = Append(@, next[n][i])]
               ELSE view

\* Mutant: the write of the new element's own link is left out.
AddSplice3_NoLink(t) ==
    /\ fault = "ok" /\ thr[t].role = "Add" /\ thr[t].pc = "sp3"
    /\ thr' = [thr EXCEPT ![t] = [@ EXCEPT !.pc = "sp4"]]
    /\ UNCHANGED <<next, view, slots, key, value, Length, prevNodesCache, nalloc,
                   Frame, fault>>

\* element.next[i] = ..., the write of the new element's own link
AddSplice3(t) ==
    /\ fault = "ok" /\ thr[t].role = "Add" /\ thr[t].pc = "sp3"
    /\ WriteLink(thr[t].e, thr[t].i, thr[t].nxt)
    /\ thr' = [thr EXCEPT ![t] = [@ EXCEPT !.pc = "sp4"]]
    /\ UNCHANGED <<slots, key, value, Length, prevNodesCache, nalloc, Frame, fault>>

\* prevs[i], of prevs[i].next[i] = element
AddSplice4(t) ==
    /\ fault = "ok" /\ thr[t].role = "Add" /\ thr[t].pc = "sp4"
    /\ Local(t, [thr[t] EXCEPT !.prev = prevNodesCache[thr[t].i], !.pc = "sp5"])

\* prevs[i].next[i] = element, the write that publishes the element at level i
AddSplice5(t) ==
    /\ fault = "ok" /\ thr[t].role = "Add" /\ thr[t].pc = "sp5"
    /\ IF HasSlot(thr[t].prev, thr[t].i)
       THEN /\ WriteLink(thr[t].prev, thr[t].i, thr[t].e)
            /\ thr' = [thr EXCEPT ![t] =
                         IF thr[t].i + 1 < thr[t].L
                         THEN [@ EXCEPT !.i = @ + 1, !.pc = "sp1"]
                         ELSE [@ EXCEPT !.pc = "len1"]]
            /\ UNCHANGED <<slots, key, value, Length, prevNodesCache, nalloc,
                           Frame, fault>>
       ELSE Panic

\* list.Length++: the read
AddLength1(t) ==
    /\ fault = "ok" /\ thr[t].role = "Add" /\ thr[t].pc = "len1"
    /\ Local(t, [thr[t] EXCEPT !.r = Length, !.pc = "len2"])

\* list.Length++: the write; the call returns
AddLength2(t) ==
    /\ fault = "ok" /\ thr[t].role = "Add" /\ thr[t].pc = "len2"
    /\ Length' = thr[t].r + 1
    /\ thr' = [thr EXCEPT ![t] = Returned(@)]
    /\ UNCHANGED <<next, slots, key, value, prevNodesCache, nalloc, Frame, fault,
                   view>>

\* -- SkipList.Get, reading without synchronisation
\* The outcomes of the reader's read of the link n.next[i]: the latest value,
\* or an older one; the values older than the one read are seen no more.
LinkReads(n, i) ==
    {[v |-> next[n][i], stale |-> FALSE,
      view |-> [view EXCEPT !.links[n][i] = <<>>]]}
    \cup {[v |-> view.links[n][i][j], stale |-> TRUE,
           view |-> [view EXCEPT !.links[n][i] = SubSeq(@, j, Len(@))]] :
          j \in 1..Len(view.links[n][i])}

\* The outcomes of the reader's read of field f of element e, written once
\* when e was made: the value cur, or the zero value of the allocation.
FieldReads(vw, e, f, cur, zero) ==
    {[v |-> cur, stale |-> FALSE, view |-> [vw EXCEPT !.init[e] = @ \ {f}]]}
    \cup (IF f \in vw.init[e] THEN {[v |-> zero, stale |-> TRUE, view |-> vw]}
          ELSE {})

\* len(n.next) as the reader sees it.
SlotReads(vw, n) ==
    IF n = ListHead THEN {[v |-> maxLevel, stale |-> FALSE, view |-> vw]}
    ELSE FieldReads(vw, n, "slots", slots[n], 0)

\* The reader dies of an index out of range, and the process with it.
Dies(t, stale) ==
    /\ fault' = "panic"
    /\ thr' = [thr EXCEPT ![t] = [@ EXCEPT !.stale = @ \/ stale]]
    /\ UNCHANGED <<Index, Frame, view>>

\* The reader moves to the locals r, having seen what leaves the view vw.
Seen(t, r, stale, vw) ==
    /\ thr' = [thr EXCEPT ![t] = [r EXCEPT !.stale = @ \/ stale]]
    /\ view' = IF r.pc = "idle" /\ r.calls = <<>> THEN NoView ELSE vw
    /\ UNCHANGED <<Index, Frame, fault>>

\* next = prev.next[i]
GetLoad(t) ==
    /\ fault = "ok" /\ thr[t].role = "Get" /\ thr[t].pc = "load"
    /\ \E s \in SlotReads(view, thr[t].prev) :
          IF thr[t].i < s.v
          THEN \E l \in LinkReads(thr[t].prev, thr[t].i) :
                  Seen(t, [thr[t] EXCEPT !.nxt = l.v, !.pc = "test"],
                       s.stale \/ l.stale,
                       [l.view EXCEPT !.init = s.view.init])
          ELSE Dies(t, s.stale)

\* The loop body: key > next.key; prev = &next.elementNode; next = next.next[i]
GetAdvance(t) ==
    /\ fault = "ok" /\ thr[t].role = "Get" /\ thr[t].pc = "test"
    /\ thr[t].nxt # NIL
    /\ \E c \in FieldReads(view, thr[t].nxt, "key", key[thr[t].nxt], 0) :
          /\ thr[t].k > c.v
          /\ \E s \in SlotReads(c.view, thr[t].nxt) :
                IF thr[t].i < s.v
                THEN \E l \in LinkReads(thr[t].nxt, thr[t].i) :
                        Seen(t, [thr[t] EXCEPT
                                   !.prev = thr[t].nxt, !.nxt = l.v,
                                   !.met = @ \/ key[thr[t].nxt] \notin thr[t].had],
                             c.stale \/ s.stale \/ l.stale,
                             [l.view EXCEPT !.init = s.view.init])
                ELSE Dies(t, c.stale \/ s.stale)

\* Mutant: Get descends as getPrevElementNodes does and records prevs[i] in
\* the shared cache.
GetDown_Cache(t) ==
    /\ fault = "ok" /\ thr[t].role = "Get" /\ thr[t].pc = "test"
    /\ \E c \in IF thr[t].nxt = NIL
                THEN {[v |-> 0, stale |-> FALSE, view |-> view]}
                ELSE FieldReads(view, thr[t].nxt, "key", key[thr[t].nxt], 0) :
          /\ thr[t].nxt = NIL \/ ~(thr[t].k > c.v)
          /\ thr' = [thr EXCEPT ![t] =
                       IF thr[t].i = 0 THEN [@ EXCEPT !.pc = "match"]
                       ELSE [@ EXCEPT !.i = @ - 1, !.pc = "load"]]
          /\ view' = c.view
    /\ prevNodesCache' = [prevNodesCache EXCEPT ![thr[t].i] = thr[t].prev]
    /\ UNCHANGED <<next, slots, key, value, Length, nalloc, Frame, fault>>

\* The loop ends at level i: on to the level below, or to the match test.
GetDown(t) ==
    /\ fault = "ok" /\ thr[t].role = "Get" /\ thr[t].pc = "test"
    /\ \E c \in IF thr[t].nxt = NIL
                THEN {[v |-> 0, stale |-> FALSE, view |-> view]}
                ELSE FieldReads(view, thr[t].nxt, "key", key[thr[t].nxt], 0) :
          /\ thr[t].nxt = NIL \/ ~(thr[t].k > c.v)
          /\ Seen(t, IF thr[t].i = 0 THEN [thr[t] EXCEPT !.pc = "match"]
                     ELSE [thr[t] EXCEPT !.i = @ - 1, !.pc = "load"],
                  c.stale, c.view)

\* if next != nil && next.key <= key { return next.value, true }
GetMatch(t) ==
    /\ fault = "ok" /\ thr[t].role = "Get" /\ thr[t].pc = "match"
    /\ IF thr[t].nxt = NIL
       THEN Seen(t, Returned(thr[t]), FALSE, view)
       ELSE \E c \in FieldReads(view, thr[t].nxt, "key", key[thr[t].nxt], 0) :
               IF c.v <= thr[t].k
               THEN \E w \in FieldReads(c.view, thr[t].nxt, "value",
                                        value[thr[t].nxt], NoVal) :
                       Seen(t, Returned([thr[t] EXCEPT !.found = TRUE, !.val = w.v]),
                            c.stale \/ w.stale, w.view)
               ELSE Seen(t, Returned(thr[t]), c.stale, c.view)

\* -- the workload
\* The index before the goroutines start: the keys of P added one after the
\* other, key k with lv[k] link slots.
RECURSIVE ConcLoad(_, _, _)
ConcLoad(h, P, lv) ==
    IF P = {} THEN h
    ELSE LET k == CHOOSE x \in P : \A y \in P : x <= y
         IN ConcLoad(SkipAddFrom(h, Candidate(SkipGetPrevElementNodes(h, k)), k,
                                 ConcValue(k), lv[k]).h,
                     P \ {k}, lv)

\* The sequences of 1..ConcCalls keys of S in ascending order, as the loops
\* of the test make their calls.
CallSeqs(S) ==
    {q \in UNION {[1..n -> S] : n \in 1..ConcCalls} :
        \A a, b \in 1..Len(q) : a < b => q[a] < q[b]}

\* Goroutine 1 adds new keys.  Goroutine 2 gets keys, or adds one more new
\* key while goroutine 1 adds one.
ConcInit ==
    \E P \in SUBSET Keys :
    \E lv \in [P -> randLevel] :
    \E adds \in CallSeqs(Keys \ P) :
    \E second \in {Idle("Get", q, P) : q \in CallSeqs(Keys)}
                  \cup {Idle("Add", <<k>>, P) :
                          k \in IF Len(adds) = 1 THEN Keys \ (P \cup {adds[1]})
                                ELSE {}} :
        /\ Cardinality(P) + Len(adds) + 1 <= DeepElems
        /\ NewIndex("SkipList", ConcLoad(EmptyHeap(0), P, lv))
        /\ thr = <<Idle("Add", adds, P), second>>
        /\ view = NoView

ConcNext ==
    \E t \in Threads :
        \/ Begin(t)
        \/ AddLoad(t)
        \/ AddAdvance(t)
        \/ AddStore(t)
        \/ AddCand(t)
        \/ AddCand2(t)
        \/ AddSetValue(t)
        \/ AddAlloc(t)
        \/ AddSplice1(t)
        \/ AddSplice2(t)
        \/ AddSplice3(t)
        \/ AddSplice4(t)
        \/ AddSplice5(t)
        \/ AddLength1(t)
        \/ AddLength2(t)
        \/ GetLoad(t)
        \/ GetAdvance(t)
        \/ GetDown(t)
        \/ GetMatch(t)

ConcSpec == ConcInit /\ [][ConcNext]_vars

\* ---------------------------------------------------------- observations
\* The elements on the level-i chain from the head, in order.
RECURSIVE ChainFrom(_, _, _, _)
ChainFrom(h, n, i, fuel) ==
    IF n = NIL \/ fuel = 0 THEN <<>>
    ELSE <<n>> \o ChainFrom(h, h.next[n][i], i, fuel - 1)

Chain(h, i) == ChainFrom(h, h.next[ListHead][i], i, Fuel)
OnLevel(h, i) == {Chain(h, i)[j] : j \in 1..Len(Chain(h, i))}
InIndex(h, k) == \E e \in OnLevel(h, 0) : h.key[e] = k
\* The nodes reachable from the head along any links.
Indexed(h) == Reach(h, {ListHead})
Stash == variant = "StashList"
Skip == variant = "SkipList"

\* ----------------------------------------------------------------- claims
\* C1: StashList, subsequence invariant: every element on the level-i chain
\* from the head (i > 0) is also on the level-(i-1) chain.
C1_Subsequence ==
    Stash => \A i \in Levels \ {0} : OnLevel(Cur, i) \subseteq OnLevel(Cur, i - 1)

\* C2: StashList, count invariant: the number of elements reachable from the
\* head along level-0 links equals Length.
C2_Count ==
    Stash => Cardinality(OnLevel(Cur, 0)) = Length

\* C3: StashList, level/link consistency: an element of the index is on the
\* chain of level i exactly when i < its level counter.
C3_LevelLinks ==
    Stash => \A e \in OnLevel(Cur, 0) : \A i \in Levels :
                 (e \in OnLevel(Cur, i)) <=> (i < level[e])

\* C4: StashList, Get agrees with a reference map: Get(k) returns (v, TRUE)
\* with v the value of the last Add(k, v) when k was added and not removed
\* since, and (nil, FALSE) otherwise.
C4_GetAgrees ==
    (Stash /\ op.name = "Get" /\ fault = "ok") =>
        /\ op.found <=> (ref[op.key] # NoVal)
        /\ op.val = ref[op.key]

\* C5: StashList, Remove(k) of a key in the index returns that element,
\* decrements Length by one and leaves the element on no level's chain.
C5_RemovePresentStep ==
    (Stash /\ op'.name = "Remove" /\ fault' = "ok" /\ InIndex(Cur, op'.key)) =>
        /\ op'.found
        /\ op'.elem \in OnLevel(Cur, 0)
        /\ key[op'.elem] = op'.key
        /\ Length' = Length - 1
        /\ \A i \in Levels : op'.elem \notin OnLevel(Cur', i)

\* C5, as a property of every step of the index.
C5_RemovePresent == [][C5_RemovePresentStep]_vars

\* C6: StashList, ordering invariant: adjacent elements of every level's
\* chain have non-decreasing keys.
C6_Ordered ==
    Stash => \A i \in Levels : \A j \in 1..(Len(Chain(Cur, i)) - 1) :
                 key[Chain(Cur, i)[j]] <= key[Chain(Cur, i)[j + 1]]

\* A promotion has just spliced an element into a level above 0 whose chain
\* holds two elements or more, after an earlier Remove.
C6_Witness ==
    /\ Stash /\ op.name = "Add" /\ op.promoted
    /\ nalloc > Length
    /\ \E i \in Levels \ {0} : op.elem \in OnLevel(Cur, i) /\ Len(Chain(Cur, i)) >= 2

\* C7: StashList, promotion never on a single hit: a call raises an
\* element's level counter only if it is Add(k), the element has key k and
\* its visited flag was set when the call began.
C7_PromotionStep ==
    Stash => \A e \in 1..nalloc :
        (level'[e] > level[e]) =>
            (op'.name = "Add" /\ key[e] = op'.key /\ visited[e] = TRUE)

\* C7, as a property of every step of the index.
C7_Promotion == [][C7_PromotionStep]_vars

\* An Add has just promoted the element it hit.
C7_Witness ==
    Stash /\ op.name = "Add" /\ op.found /\ op.promoted /\ level[op.elem] >= 2

\* C8: StashList, level bounds: the level counter of every element the
\* program still holds is in 1..maxLevel.
C8_LevelBounds ==
    Stash => \A e \in Elems : key[e] # 0 => (1 <= level[e] /\ level[e] <= maxLevel)

\* C9: both indexes, Remove(k) of a key not in the index returns nil and
\* leaves Length and every link, level counter and visited flag unchanged.
C9_RemoveAbsentStep ==
    (op'.name = "Remove" /\ fault' = "ok" /\ ~InIndex(Cur, op'.key)) =>
        /\ ~op'.found /\ op'.elem = NIL
        /\ Length' = Length
        /\ \A n \in Indexed(Cur) :
              next'[n] = next[n] /\ level'[n] = level[n] /\ visited'[n] = visited[n]

\* C9, as a property of every step of the index.
C9_RemoveAbsent == [][C9_RemoveAbsentStep]_vars

\* C10: both indexes, update semantics: Add(k, v1) immediately followed by
\* Add(k, v2) leaves exactly one element with key k on the level-0 chain,
\* its value is v2, and the second Add does not change Length.
C10_UpdateStep ==
    (op.name = "Add" /\ op'.name = "Add" /\ op'.key = op.key /\ fault' = "ok") =>
        /\ Cardinality({e \in OnLevel(Cur', 0) : key'[e] = op'.key}) = 1
        /\ \A e \in OnLevel(Cur', 0) : key'[e] = op'.key => value'[e] = op'.val
        /\ Length' = Length

\* C10, as a property of every step of the index.
C10_Update == [][C10_UpdateStep]_vars

\* C11: SkipList, the well-formedness checkSanity asserts: every level's chain
\* from the head is sorted by key with no key repeated, and every element on
\* a level i > 0 has at least i + 1 link slots and is on level i - 1 too.
C11_Sanity ==
    Skip => \A i \in Levels :
        /\ \A j \in 1..(Len(Chain(Cur, i)) - 1) :
              key[Chain(Cur, i)[j]] < key[Chain(Cur, i)[j + 1]]
        /\ \A e \in OnLevel(Cur, i) :
              /\ slots[e] >= i + 1
              /\ i > 0 => e \in OnLevel(Cur, i - 1)

\* A Remove has just taken an element out of a SkipList that still holds two
\* elements, one of them on a level above 0 that the other is not on.
C11_Witness ==
    /\ Skip /\ op.name = "Remove" /\ op.found
    /\ Len(Chain(Cur, 0)) = 2
    /\ \E i \in Levels \ {0} : Len(Chain(Cur, i)) = 1

\* C12: SkipList, count invariant: Length equals the number of elements on
\* the level-0 chain from the head, which equals the number of distinct keys
\* added and not removed since.
C12_Count ==
    Skip => /\ Length = Len(Chain(Cur, 0))
            /\ Length = Cardinality(OnLevel(Cur, 0))
            /\ Length = Cardinality({k \in Keys : ref[k] # NoVal})

\* An Add has just updated one of two keys of a SkipList that a third key was
\* removed from.
C12_Witness ==
    /\ Skip /\ op.name = "Add" /\ op.found
    /\ Length = 2 /\ nalloc = 3

\* C13: SkipList, Get agrees with a reference map: Get(k) returns (v, TRUE)
\* with v the value of the latest Add(k, v) when k is present and (nil, FALSE)
\* when k was never added or was removed, and the match test after the
\* descent never reports a hit on an element whose key differs from k.
C13_GetAgrees ==
    (Skip /\ op.name = "Get" /\ fault = "ok") =>
        /\ op.found <=> (ref[op.key] # NoVal)
        /\ op.val = ref[op.key]
        /\ op.found => (op.elem # NIL /\ key[op.elem] = op.key)

\* A Get has just missed a key that sorts before a key in the index, in a
\* SkipList an element was removed from.
C13_Witness ==
    /\ Skip /\ op.name = "Get" /\ ~op.found
    /\ nalloc > Length
    /\ \E e \in OnLevel(Cur, 0) : key[e] > op.key

\* C14: StashList, promotion on re-hit: Add(k, v) on an existing element with
\* key k whose visited flag is set and whose level is below maxLevel raises
\* that element's level by exactly one and leaves it on the chain from the
\* head at the newly claimed level, directly after the predecessor the
\* descent recorded at that level.
C14_PromoteStep ==
    (/\ Stash /\ op'.name = "Add" /\ fault' = "ok" /\ op'.found
     /\ InIndex(Cur, op'.key)
     /\ visited[op'.elem] /\ level[op'.elem] < maxLevel) =>
        /\ level'[op'.elem] = level[op'.elem] + 1
        /\ op'.elem \in OnLevel(Cur', level[op'.elem])
        /\ next'[prevNodesCache'[level[op'.elem]]][level[op'.elem]] = op'.elem

\* C14, as a property of every step of the index.
C14_Promote == [][C14_PromoteStep]_vars

\* C15: StashList, a first hit makes no structural change: Add(k, v) on an
\* existing element with key k whose visited flag is unset sets the flag and
\* replaces the value, and changes no forward link at any level and no
\* element's level counter.
C15_FirstHitStep ==
    (/\ Stash /\ op'.name = "Add" /\ fault' = "ok" /\ op'.found
     /\ InIndex(Cur, op'.key) /\ ~visited[op'.elem]) =>
        /\ visited'[op'.elem] /\ value'[op'.elem] = op'.val
        /\ next' = next
        /\ level' = level

\* C15, as a property of every step of the index.
C15_FirstHit == [][C15_FirstHitStep]_vars

\* Element e was demoted by the descent of a call for key k: unvisited, of a
\* smaller key, one level lower after the call.
C15_Demoted(e, k) ==
    e \in Elems /\ ~visited[e] /\ key[e] < k /\ level'[e] = level[e] - 1

\* C15 amended: a first hit sets the flag and replaces the value; the only
\* links and level counters the call changes are those of the demotions of
\* its descent, on the nodes the index still holds after the call: a demoted
\* element loses one level and its link at a level above 0 to the element of
\* key k, which the node before it takes over.
C15_FirstHitAmendedStep ==
    (/\ Stash /\ op'.name = "Add" /\ fault' = "ok" /\ op'.found
     /\ InIndex(Cur, op'.key) /\ ~visited[op'.elem]) =>
        /\ visited'[op'.elem] /\ value'[op'.elem] = op'.val
        /\ Length' = Length
        /\ \A e \in Elems : (key'[e] # 0 /\ level'[e] # level[e]) =>
              C15_Demoted(e, op'.key)
        /\ \A n \in Nodes, i \in Levels :
              ((n = ListHead \/ key'[n] # 0) /\ next'[n][i] # next[n][i]) =>
              /\ i > 0
              /\ \/ /\ C15_Demoted(n, op'.key)
                    /\ next'[n][i] = NIL /\ key[next[n][i]] = op'.key
                 \/ /\ C15_Demoted(next[n][i], op'.key)
                    /\ next'[n][i] = next[next[n][i]][i]
                    /\ key[next'[n][i]] = op'.key

\* C15 amended, as a property of every step of the index.
C15_FirstHitAmended == [][C15_FirstHitAmendedStep]_vars

\* An Add has just hit an unvisited element (it could have been promoted had
\* its flag been set) after its descent demoted an unvisited element of the
\* index at a level above 0, where the element hit still is.
C15_Witness ==
    /\ Stash /\ op.name = "Add" /\ op.found /\ ~op.promoted
    /\ level[op.elem] < maxLevel /\ prevNodesCache[level[op.elem]] # ListHead
    /\ \E i \in Levels \ {0} :
          /\ prevNodesCache[i] \in OnLevel(Cur, 0)
          /\ next[prevNodesCache[i]][i] = NIL
          /\ level[prevNodesCache[i]] = i
          /\ ~visited[prevNodesCache[i]]
          /\ op.elem \in OnLevel(Cur, i)

\* Element p is demoted at level i by a descent that turns the index into d:
\* the descent clears a link only there.
C16_DemotedAt(d, p, i) == next[p][i] # NIL /\ d.next[p][i] = NIL

\* The demotion rule, for the descent for key k that turns the index into d.
C16_Rule(d, k) ==
    /\ \A p \in Elems, i \in Levels : C16_DemotedAt(d, p, i) =>
          /\ i > 0 /\ ~visited[p] /\ key[next[p][i]] = k
          /\ \E b \in Nodes : next[b][i] = p /\ d.next[b][i] = next[p][i]
          /\ \A j \in Levels \ {i} :
                \/ d.next[p][j] = next[p][j]
                \/ /\ C16_DemotedAt(d, next[p][j], j)
                   /\ d.next[p][j] = next[next[p][j]][j]
          /\ d.level[p] = level[p] - 1
          /\ \A j \in 0..(i - 1) : p \in OnLevel(Cur, j) => p \in OnLevel(d, j)
          /\ next[p][i] \in OnLevel(Cur, i) => next[p][i] \in OnLevel(d, i)
    /\ \A i \in Levels :
          Cardinality({p \in Elems : C16_DemotedAt(d, p, i)}) <= 1
    /\ \A p \in OnLevel(Cur, maxLevel - 1) :
          (/\ maxLevel > 1 /\ ~visited[p] /\ key[p] < k
           /\ next[p][maxLevel - 1] # NIL /\ key[next[p][maxLevel - 1]] = k) =>
              C16_DemotedAt(d, p, maxLevel - 1)
    /\ \A e \in Elems : d.level[e] # level[e] =>
          \E i \in Levels : C16_DemotedAt(d, e, i)

\* C16: StashList, demotion rule: when a descent for key k at a level i > 0
\* advances onto an unvisited element p whose level-i successor has key k, p
\* is unlinked from level i only (the node before p takes over its link), p's
\* level counter drops by exactly one, p stays on every level below i, the
\* successor stays on level i, and at most one element is demoted per level
\* per descent.
C16_DemotionRule ==
    Stash => \A k \in DeepKeys : C16_Rule(StashGetPrevElementNodes(Cur, k).h, k)

\* The levels whose chain from the head element e is on before the step, and
\* after it.
C17_LevelsBefore(e) == {i \in Levels : e \in OnLevel(Cur, i)}
C17_LevelsAfter(e) == {i \in Levels : e \in OnLevel(Cur', i)}

\* C17: StashList, Remove touches only the removed element's links:
\* Remove(k) of a present key leaves every other element on the head's chains
\* of exactly the same levels as before the call, except for an element
\* demoted by the descent, which loses only the level it was demoted from.
C17_RemoveFrameStep ==
    (/\ Stash /\ op'.name = "Remove" /\ fault' = "ok" /\ op'.found
     /\ InIndex(Cur, op'.key)) =>
        \A e \in Elems \ {op'.elem} :
            \/ C17_LevelsAfter(e) = C17_LevelsBefore(e)
            \/ \E i \in C17_LevelsBefore(e) :
                  /\ C17_LevelsAfter(e) = C17_LevelsBefore(e) \ {i}
                  /\ i > 0 /\ ~visited[e] /\ level'[e] = level[e] - 1
                  /\ next[e][i] # NIL /\ key[next[e][i]] = op'.key

\* C17, as a property of every step of the index.
C17_RemoveFrame == [][C17_RemoveFrameStep]_vars

\* C18: StashList, Get participates in demotion: the descent of Get(k)
\* applies the demotion rule of Add and Remove, so a Get(k) whose descent
\* advances at the top level onto an unvisited element whose successor there
\* has key k unlinks that element from the level and decrements its level
\* counter.
C18_GetDemotesStep ==
    (Stash /\ op'.name = "Get" /\ fault' = "ok" /\ maxLevel > 1) =>
        \A p \in OnLevel(Cur, maxLevel - 1) :
            (/\ ~visited[p] /\ key[p] < op'.key
             /\ next[p][maxLevel - 1] # NIL
             /\ key[next[p][maxLevel - 1]] = op'.key) =>
                /\ next'[p][maxLevel - 1] = NIL
                /\ level'[p] = level[p] - 1

\* C18, as a property of every step of the index.
C18_GetDemotes == [][C18_GetDemotesStep]_vars

\* C19: StashList, fresh insertion state: an Add(k, v) that finds no element
\* with key k creates an element whose level counter is the drawn level L in
\* 1..maxLevel, links it into exactly the levels 0..L-1 (after the recorded
\* predecessors), increments Length by one and sets its visited flag iff
\* L = 1.
C19_FreshStep ==
    (Stash /\ op'.name = "Add" /\ fault' = "ok" /\ ~op'.found) =>
        /\ op'.elem \in Elems /\ key[op'.elem] = 0
        /\ key'[op'.elem] = op'.key /\ value'[op'.elem] = op'.val
        /\ op'.lvl \in 1..maxLevel
        /\ level'[op'.elem] = op'.lvl
        /\ \A i \in Levels :
              /\ (\E n \in Nodes : next'[n][i] = op'.elem) <=> (i < op'.lvl)
              /\ i < op'.lvl => next'[prevNodesCache'[i]][i] = op'.elem
              /\ i >= op'.lvl => next'[op'.elem][i] = NIL
        /\ Length' = Length + 1
        /\ visited'[op'.elem] <=> (op'.lvl = 1)

\* C19, as a property of every step of the index.
C19_Fresh == [][C19_FreshStep]_vars

\* An Add has just inserted a third element at level 2, between two elements
\* of the level-1 chain.
C19_Witness ==
    /\ Stash /\ op.name = "Add" /\ ~op.found /\ op.lvl = 2
    /\ Length = 3 /\ ~visited[op.elem]
    /\ op.elem \in OnLevel(Cur, 1)
    /\ next[op.elem][1] # NIL /\ next[ListHead][1] # op.elem

\* The level-i chain from node n ends: it reaches nil within as many links
\* as there are nodes.
RECURSIVE C20_Ends(_, _, _)
C20_Ends(n, i, fuel) ==
    n = NIL \/ (fuel > 0 /\ C20_Ends(next[n][i], i, fuel - 1))

\* C20: StashList, termination: every Add, Get and Remove call from a
\* reachable state returns (none hangs in a walk or panics), and no forward
\* chain at any level, followed from the head or from any element the index
\* holds, contains a cycle.
C20_Terminates ==
    Stash => /\ fault = "ok"
             /\ \A n \in Nodes, i \in Levels : C20_Ends(n, i, Fuel)

\* The goroutines of the test: goroutine 1 adds, goroutine 2 gets.
C21_WriterAndReader ==
    thr # <<>> /\ thr[1].role = "Add" /\ thr[2].role = "Get"

\* C21: SkipList, single writer with a concurrent reader: when goroutine 1
\* has made its Add calls for n distinct keys on an index that was empty and
\* goroutine 2 its Get calls, under every interleaving of their reads and
\* writes, Length is n once both have finished.
C21_FinalLength ==
    (C21_WriterAndReader /\ thr[1].had = {} /\ Finished(1) /\ Finished(2)) =>
        Length = thr[1].n

\* Both goroutines have finished: two keys were added to an empty index while
\* a Get ran, and that Get found its key.
C21_Witness ==
    /\ C21_WriterAndReader /\ thr[1].had = {} /\ Finished(1) /\ Finished(2)
    /\ thr[1].n = 2 /\ thr[2].overlap /\ thr[2].found /\ Length = 2

\* Two goroutines have each made one Add call, for distinct new keys, and
\* both calls have returned.
C22_BothAdded ==
    /\ thr # <<>> /\ thr[1].role = "Add" /\ thr[2].role = "Add"
    /\ Finished(1) /\ Finished(2)

\* The damage a final state can show.
C22_KeyLost == \E t \in Threads : ~InIndex(Cur, thr[t].k)
C22_BadLength == Length # Len(Chain(Cur, 0))
C22_Unsorted ==
    \E i \in Levels : \E j \in 1..(Len(Chain(Cur, i)) - 1) :
        key[Chain(Cur, i)[j]] >= key[Chain(Cur, i)[j + 1]]
C22_NotSubsequence ==
    \E i \in Levels \ {0} : ~(OnLevel(Cur, i) \subseteq OnLevel(Cur, i - 1))

\* C22: SkipList, concurrent writers corrupt the structure: two Add calls for
\* distinct new keys, interleaved at their single writes to prevNodesCache
\* and to the forward links, can end in a state where an added key is not
\* reachable at level 0, Length differs from the number of elements on level
\* 0, or a level is not sorted or not a subsequence of the level below
\* (C22_Witness is such a state); the damage is due to the interleaving: a
\* final state shows it only if the two calls ran concurrently.
C22_Corrupts ==
    (/\ C22_BothAdded
     /\ C22_KeyLost \/ C22_BadLength \/ C22_Unsorted \/ C22_NotSubsequence) =>
        (thr[1].overlap /\ thr[2].overlap)

\* Both Adds have returned and the index shows every kind of damage at once:
\* an added key is not on level 0, Length is not the number of elements on
\* level 0, a level is out of order and a level holds an element the level
\* below does not.
C22_Witness ==
    /\ C22_BothAdded /\ fault = "ok"
    /\ C22_KeyLost /\ C22_BadLength /\ C22_NotSubsequence
    /\ \E i \in Levels : \E j \in 1..(Len(Chain(Cur, i)) - 1) :
          key[Chain(Cur, i)[j]] > key[Chain(Cur, i)[j + 1]]

\* One goroutine makes a single Add of a new key; the other gets the key k,
\* which the index held before.
C23_OneInsert ==
    /\ thr # <<>> /\ thr[1].role = "Add" /\ thr[1].n = 1
    /\ thr[2].role = "Get" /\ thr[2].k \in thr[2].had

\* The Get has returned (v, true) with the value of its key.
C23_Found == thr[2].found /\ thr[2].val = ConcValue(thr[2].k)

====
